---------------------------- MODULE Spec2Model ----------------------------
(***************************************************************************)
(* Booking core of the fitness-hall bot (src/Main.go): the in-memory       *)
(* AppState, its JSON record on disk (loadState / saveState), the booking  *)
(* transaction bookSlot and the update handlers of main.                   *)
(*                                                                         *)
(* Go values are modelled as follows.  A slice is a sequence; the code     *)
(* only ever takes len() of a slice or ranges over it, so a nil slice and  *)
(* an empty one are both << >> (JSON null and [] both decode to length 0). *)
(* The map state.Users is a function from user id to User record together  *)
(* with the flag UsersNil, because loadState tests the map against nil.    *)
(* Strings that the code only compares are strings; strings that the code  *)
(* converts (map keys of the record, the ids carried by callback data) are *)
(* sequences of characters.                                                *)
(***************************************************************************)
EXTENDS Integers, Sequences, FiniteSets, TLC

VARIABLES
    phase,    \* position of main: "boot" (before loadState), "run" (in the update loop), "dead" (exited)
    state,    \* the global AppState
    disk,     \* the file at statePath
    faults,   \* how many more writes of the file the disk will fail
    last,     \* what the last step of main did and answered
    stateMu,  \* the mutex stateMu: "free" or the goroutine that holds it
    calls,    \* the calls of bookSlot made by goroutines other than main
    run       \* the statement main is at, when main is followed statement by statement

vars == <<phase, state, disk, faults, last, stateMu, calls, run>>

---------------------------------------------------------------------------
(* Bounds of the model and input alphabets *)

\* on a faulty disk at most this many writes of the record fail
MaxWriteFailures == 1
\* the clock reads ClockStart + k when the ledger holds k bookings
ClockStart == 1000

\* chat users that send updates; "10" sorts before "7" as a map key
UserIDs == {7, 10}
\* the sender of an update, as Telegram describes it: user 7 has a last
\* name, user 10 has none
From(userID) ==
    IF userID = 7
    THEN [ID |-> 7, FirstName |-> "Ann", LastName |-> "Lee", UserName |-> "annlee"]
    ELSE [ID |-> userID, FirstName |-> "Bob", LastName |-> "", UserName |-> "bob"]
\* texts of plain messages
Texts == {"/start", "Trenery"}
\* the id part of trainer_ and book_ callback data: ids of the catalogue, an
\* id no seeded trainer has, a number with a sign, and text that is no number
IdStrs == {<<"1">>, <<"6">>, <<"-", "1">>, <<"x">>}
\* the two parts of slot_ callback data: the id and the label
SlotData ==
    {<<<<"1">>, "08:00">>, <<<<"+", "1">>, "09:00">>, <<<<"1">>, "10:00">>, <<<<"1">>, "20:00">>,
     <<<<"2">>, "08:00">>, <<<<"x">>, "08:00">>}

\* the same for main run statement by statement: for trainer_ and book_ an
\* id of the catalogue after a blank and before an underscore, where the scan
\* stops, and text that is no number
StepIdStrs == {<<"\f", "1", "_", "2">>, <<"x">>}

\* for slot_, what strings.SplitN(rest, "_", 2) gives when rest has an
\* underscore: two trainers, a slot asked twice, and the parts of slot_1_2
StepSlotData ==
    {<<<<"1">>, "08:00">>, <<<<"1">>, "09:00">>, <<<<"2">>, "08:00">>, <<<<"1">>, "2">>}

\* for slot_, the rest when it has no underscore: SplitN gives one part
StepNoLabel == {id \in StepIdStrs : \A i \in 1..Len(id) : id[i] # "_"}

---------------------------------------------------------------------------
(* Small helpers *)

Digits == <<"0", "1", "2", "3", "4", "5", "6", "7", "8", "9">>

IsDigit(c) == \E i \in 1..10 : Digits[i] = c

DigitVal(c) == (CHOOSE i \in 1..10 : Digits[i] = c) - 1

\* RemoveAt sliced one off, append(slots[:pos], slots[pos:]...): nothing leaves
RemoveAtKeepsAll(s, p) == s

\* s without its element at 1-based position p
RemoveAt(s, p) == [i \in 1..(Len(s) - 1) |-> IF i < p THEN s[i] ELSE s[i + 1]]

\* the search loops for a trainer, lines 133-137 and 165-170: the first
\* 1-based position of trainers whose ID is id, 0 when there is none
TrainerIndex(trainers, id) ==
    IF \E i \in 1..Len(trainers) : trainers[i].ID = id
    THEN CHOOSE i \in 1..Len(trainers) :
             trainers[i].ID = id /\ \A j \in 1..(i - 1) : trainers[j].ID # id
    ELSE 0

\* the search loop for a slot, lines 176-181: the first 1-based position of
\* slots that holds the label slot, 0 when there is none
SlotIndex(slots, slot) ==
    IF \E i \in 1..Len(slots) : slots[i] = slot
    THEN CHOOSE i \in 1..Len(slots) : slots[i] = slot /\ \A j \in 1..(i - 1) : slots[j] # slot
    ELSE 0

---------------------------------------------------------------------------
(* The seed catalogue *)

defaultSlots ==
    <<"08:00", "09:00", "10:00", "11:00", "12:00", "13:00", "14:00",
      "15:00", "16:00", "17:00", "18:00", "19:00", "20:00">>

defaultTrainers ==
    << [ID |-> 1, Name |-> "Aidos Nurtaev",
        Bio |-> "Silovoi trening, funktsionalnaya podgotovka.",
        Achievements |-> <<"MS po pauerliftingu", "Pobeditel Almaty Open 2022">>,
        Slots |-> defaultSlots],
       [ID |-> 2, Name |-> "Aliya Zhaksylykova",
        Bio |-> "Fitnes dlya zhenshchin, poslerodovoe vosstanovlenie.",
        Achievements |-> <<"Sertifitsirovannyi personalnyi trener NASM">>,
        Slots |-> defaultSlots],
       [ID |-> 3, Name |-> "Rasul Abdrakhman",
        Bio |-> "Boks, OFP, vynoslivost.",
        Achievements |-> <<"Chempion RK sredi yuniorov po boksu">>,
        Slots |-> defaultSlots],
       [ID |-> 4, Name |-> "Dinara Esmukhan",
        Bio |-> "Ioga, gibkost, dykhatelnye praktiki.",
        Achievements |-> <<"RYT-500 Yoga Alliance">>,
        Slots |-> defaultSlots],
       [ID |-> 5, Name |-> "Madi Beken",
        Bio |-> "Krossfit, snizhenie vesa.",
        Achievements |-> <<"Sertifitsirovannyi trener CrossFit L1">>,
        Slots |-> defaultSlots] >>

\* the zero value of the package variable state
ZeroState == [Users |-> << >>, UsersNil |-> TRUE, Trainers |-> << >>, Bookings |-> << >>]

\* the AppState loadState builds when there is no file
FreshState ==
    [Users |-> << >>, UsersNil |-> FALSE, Trainers |-> defaultTrainers, Bookings |-> << >>]

---------------------------------------------------------------------------
(* The JSON record: encoding/json on AppState *)

\* strconv.FormatInt(n, 10): the map key of a user
RECURSIVE Itoa(_)
Itoa(n) ==
    IF n < 0 THEN <<"-">> \o Itoa(0 - n)
    ELSE IF n < 10 THEN <<Digits[n + 1]>>
    ELSE Itoa(n \div 10) \o <<Digits[(n % 10) + 1]>>

\* the bytes of a number in text, in the order of their codes: '+' is 43,
\* '-' is 45, the digits are 48 to 57
NumberBytes == <<"+", "-">> \o Digits

ByteRank(c) == CHOOSE i \in 1..Len(NumberBytes) : NumberBytes[i] = c

\* byte order of two keys, as the encoder sorts them
RECURSIVE LexLess(_, _)
LexLess(a, b) ==
    IF Len(a) = 0 THEN Len(b) > 0
    ELSE IF Len(b) = 0 THEN FALSE
    ELSE IF a[1] # b[1] THEN ByteRank(a[1]) < ByteRank(b[1])
    ELSE LexLess(Tail(a), Tail(b))

\* strconv.ParseInt(s, 10, 64) reads an optional sign and then digits
Negative(s) == Len(s) > 0 /\ s[1] = "-"

Unsigned(s) == IF Len(s) > 0 /\ s[1] \in {"+", "-"} THEN Tail(s) ELSE s

\* digits without their leading zeros
RECURSIVE StripZeros(_)
StripZeros(d) == IF Len(d) > 0 /\ d[1] = "0" THEN StripZeros(Tail(d)) ELSE d

\* the digits of 1<<63 - 1, the largest int64, and of 1<<63
MaxInt64Digits ==
    <<"9", "2", "2", "3", "3", "7", "2", "0", "3", "6",
      "8", "5", "4", "7", "7", "5", "8", "0", "7">>

MinInt64Digits == [MaxInt64Digits EXCEPT ![19] = "8"]

\* whether the number of digits d, negated when neg, is an int64: ParseInt
\* returns a range error otherwise
InInt64(d, neg) ==
    LET z == StripZeros(d)
        lim == IF neg THEN MinInt64Digits ELSE MaxInt64Digits
    IN \/ Len(z) < Len(lim)
       \/ Len(z) = Len(lim) /\ (z = lim \/ LexLess(z, lim))

\* whether strconv.ParseInt(s, 10, 64) returns no error: a sign or none,
\* then one digit or more and nothing else, and a value that is an int64
IsNumber(s) ==
    /\ Len(Unsigned(s)) > 0
    /\ \A i \in 1..Len(Unsigned(s)) : IsDigit(Unsigned(s)[i])
    /\ InInt64(Unsigned(s), Negative(s))

\* the value of the digits of s from place i on, after the value n of the
\* digits before them: n*10 + d for each digit d in turn
RECURSIVE AtoiFrom(_, _, _)
AtoiFrom(s, i, n) ==
    IF i > Len(s) THEN n ELSE AtoiFrom(s, i + 1, 10 * n + DigitVal(s[i]))

\* the value strconv.ParseInt returns for text it accepts
Atoi(s) ==
    IF Negative(s) THEN 0 - AtoiFrom(s, 2, 0)
    ELSE IF s[1] = "+" THEN AtoiFrom(s, 2, 0)
    ELSE AtoiFrom(s, 1, 0)

\* the keys of a map in the order the encoder writes them
RECURSIVE SortKeys(_)
SortKeys(ks) ==
    IF ks = {} THEN << >>
    ELSE LET k == CHOOSE x \in ks : \A y \in ks \ {x} : LexLess(x, y)
         IN <<k>> \o SortKeys(ks \ {k})

EncodeUser(u) == [id |-> u.ID, name |-> u.Name, has_paid |-> u.HasPaid]

DecodeUser(o) == [ID |-> o.id, Name |-> o.name, HasPaid |-> o.has_paid]

EncodeTrainer(t) ==
    [id |-> t.ID, name |-> t.Name, bio |-> t.Bio,
     achievements |-> t.Achievements, slots |-> t.Slots]

DecodeTrainer(o) ==
    [ID |-> o.id, Name |-> o.name, Bio |-> o.bio,
     Achievements |-> o.achievements, Slots |-> o.slots]

EncodeBooking(b) ==
    [user_id |-> b.UserID, trainer |-> b.Trainer,
     time_slot |-> b.TimeSlot, booked_at |-> b.BookedAt]

DecodeBooking(o) ==
    [UserID |-> o.user_id, Trainer |-> o.trainer,
     TimeSlot |-> o.time_slot, BookedAt |-> o.booked_at]

\* json.MarshalIndent(&tmp): "users" is null for a nil map, else an object
\* whose members are the users under their ids in decimal, sorted as strings
Marshal(st) ==
    [users_null |-> st.UsersNil,
     users |-> LET ks == SortKeys({Itoa(id) : id \in DOMAIN st.Users})
               IN [i \in 1..Len(ks) |-> [key |-> ks[i], val |-> EncodeUser(st.Users[Atoi(ks[i])])]],
     trainers |-> [i \in 1..Len(st.Trainers) |-> EncodeTrainer(st.Trainers[i])],
     bookings |-> [i \in 1..Len(st.Bookings) |-> EncodeBooking(st.Bookings[i])]]

\* whether dec.Decode accepts the document: every key of "users" is an integer
Decodable(doc) == \A i \in 1..Len(doc.users) : IsNumber(doc.users[i].key)

\* dec.Decode(&tmp) of a document it accepts: a later member replaces an
\* earlier one with the same key
Unmarshal(doc) ==
    [Users |-> [id \in {Atoi(doc.users[i].key) : i \in 1..Len(doc.users)} |->
                  LET k == CHOOSE i \in 1..Len(doc.users) :
                               /\ Atoi(doc.users[i].key) = id
                               /\ \A j \in (i + 1)..Len(doc.users) : Atoi(doc.users[j].key) # id
                  IN DecodeUser(doc.users[k].val)],
     UsersNil |-> doc.users_null,
     Trainers |-> [i \in 1..Len(doc.trainers) |-> DecodeTrainer(doc.trainers[i])],
     Bookings |-> [i \in 1..Len(doc.bookings) |-> DecodeBooking(doc.bookings[i])]]


---------------------------------------------------------------------------
(* The file at statePath *)

\* a file holding a JSON document
DocFile(doc) == [kind |-> "doc", doc |-> doc]

\* no file, a file that cannot be opened, a file that is no JSON document
NoDocFile(kind) == [kind |-> kind, doc |-> Marshal(ZeroState)]

\* the documents loadState decodes: the rest of loadState, lines 89-104
loadDecoded(tmp) ==
    LET tmp1 == IF Len(tmp.Trainers) = 0
                THEN [tmp EXCEPT !.Trainers = defaultTrainers]
                ELSE tmp
    IN IF tmp1.UsersNil
       THEN [tmp1 EXCEPT !.Users = << >>, !.UsersNil = FALSE]
       ELSE tmp1

\* loadState that also gives a trainer without slots the default slots
loadStateReseedsSlots(file, st) ==
    IF file.kind = "missing"
    THEN [err |-> "", state |-> FreshState, save |-> TRUE]
    ELSE IF file.kind = "unreadable"
    THEN [err |-> "open", state |-> st, save |-> FALSE]
    ELSE IF file.kind = "malformed" \/ ~Decodable(file.doc)
    THEN [err |-> "decode", state |-> st, save |-> FALSE]
    ELSE LET tmp == loadDecoded(Unmarshal(file.doc))
         IN [err |-> "", save |-> FALSE,
             state |-> [tmp EXCEPT !.Trainers =
                          [k \in 1..Len(tmp.Trainers) |->
                              IF Len(tmp.Trainers[k].Slots) = 0
                              THEN [tmp.Trainers[k] EXCEPT !.Slots = defaultSlots]
                              ELSE tmp.Trainers[k]]]]

\* loadState that does not save the fresh state it installs
loadStateNoSave(file, st) ==
    IF file.kind = "missing"
    THEN [err |-> "", state |-> FreshState, save |-> FALSE]
    ELSE IF file.kind = "unreadable"
    THEN [err |-> "open", state |-> st, save |-> FALSE]
    ELSE IF file.kind = "malformed" \/ ~Decodable(file.doc)
    THEN [err |-> "decode", state |-> st, save |-> FALSE]
    ELSE [err |-> "", state |-> loadDecoded(Unmarshal(file.doc)), save |-> FALSE]

\* loadState that installs the fresh state when the catalogue is empty
loadStateResetsAll(file, st) ==
    IF file.kind = "missing"
    THEN [err |-> "", state |-> FreshState, save |-> TRUE]
    ELSE IF file.kind = "unreadable"
    THEN [err |-> "open", state |-> st, save |-> FALSE]
    ELSE IF file.kind = "malformed" \/ ~Decodable(file.doc)
    THEN [err |-> "decode", state |-> st, save |-> FALSE]
    ELSE IF Len(Unmarshal(file.doc).Trainers) = 0
    THEN [err |-> "", state |-> FreshState, save |-> FALSE]
    ELSE [err |-> "", state |-> loadDecoded(Unmarshal(file.doc)), save |-> FALSE]

\* loadState that treats a file it cannot decode like a missing one
loadStateForgiving(file, st) ==
    IF file.kind = "missing"
    THEN [err |-> "", state |-> FreshState, save |-> TRUE]
    ELSE IF file.kind = "unreadable"
    THEN [err |-> "open", state |-> st, save |-> FALSE]
    ELSE IF file.kind = "malformed" \/ ~Decodable(file.doc)
    THEN [err |-> "", state |-> FreshState, save |-> TRUE]
    ELSE [err |-> "", state |-> loadDecoded(Unmarshal(file.doc)), save |-> FALSE]

\* loadState up to its return or its call of saveState: the error it returns
\* ("" for none), the AppState it installs and whether it goes on to saveState
loadState(file, st) ==
    IF file.kind = "missing"
    THEN [err |-> "", state |-> FreshState, save |-> TRUE]
    ELSE IF file.kind = "unreadable"
    THEN [err |-> "open", state |-> st, save |-> FALSE]
    ELSE IF file.kind = "malformed" \/ ~Decodable(file.doc)
    THEN [err |-> "decode", state |-> st, save |-> FALSE]
    ELSE [err |-> "", state |-> loadDecoded(Unmarshal(file.doc)), save |-> FALSE]

\* the outcomes of os.WriteFile: written, failed before the file was touched,
\* failed after the file was truncated
WriteOutcomes == {"ok", "open_failed", "write_failed"}

\* saveState: the file after os.WriteFile of the marshalled state ended as out
saveState(st, file, out) ==
    IF out = "ok" THEN DocFile(Marshal(st))
    ELSE IF out = "open_failed" THEN file
    ELSE NoDocFile("malformed")

---------------------------------------------------------------------------
(* The store *)

\* getOrCreateUser that stores a new record whether or not the id is known
getOrCreateUserOverwrites(st, id, name) ==
    [st EXCEPT !.Users = [k \in DOMAIN st.Users \cup {id} |->
                             IF k = id
                             THEN [ID |-> id, Name |-> name, HasPaid |-> FALSE]
                             ELSE st.Users[k]]]

\* getOrCreateUser: the AppState after the call
getOrCreateUser(st, id, name) ==
    IF id \in DOMAIN st.Users
    THEN st
    ELSE [st EXCEPT !.Users = [k \in DOMAIN st.Users \cup {id} |->
                                 IF k = id
                                 THEN [ID |-> id, Name |-> name, HasPaid |-> FALSE]
                                 ELSE st.Users[k]]]

\* getTrainerByID: the 1-based position of the first trainer with this id, 0 for (nil, -1)
getTrainerByID(st, id) == TrainerIndex(st.Trainers, id)

\* ScanBookings with the zero value read as "no trainer yet" at the
\* comparison: existingTrainer is compared before the booking at hand sets it
RECURSIVE ScanBookingsZeroUnset(_, _, _, _, _, _)
ScanBookingsZeroUnset(bs, i, userID, trainerID, existingTrainer, count) ==
    IF i > Len(bs) THEN [rejected |-> FALSE, count |-> count]
    ELSE IF bs[i].UserID # userID
    THEN ScanBookingsZeroUnset(bs, i + 1, userID, trainerID, existingTrainer, count)
    ELSE LET existing == IF existingTrainer = 0 THEN bs[i].Trainer ELSE existingTrainer
         IN IF bs[i].Trainer = trainerID
            THEN ScanBookingsZeroUnset(bs, i + 1, userID, trainerID, existing, count + 1)
            ELSE IF existingTrainer # 0 /\ trainerID # existingTrainer
            THEN [rejected |-> TRUE, count |-> count]
            ELSE ScanBookingsZeroUnset(bs, i + 1, userID, trainerID, existing, count)

\* the loop of bookSlot over state.Bookings from position i on, with the
\* values existingTrainer and userCountWithThisTrainer have on entry
RECURSIVE ScanBookings(_, _, _, _, _, _)
ScanBookings(bs, i, userID, trainerID, existingTrainer, count) ==
    IF i > Len(bs) THEN [rejected |-> FALSE, count |-> count]
    ELSE IF bs[i].UserID # userID
    THEN ScanBookings(bs, i + 1, userID, trainerID, existingTrainer, count)
    ELSE LET existing == IF existingTrainer = 0 THEN bs[i].Trainer ELSE existingTrainer
         IN IF bs[i].Trainer = trainerID
            THEN ScanBookings(bs, i + 1, userID, trainerID, existing, count + 1)
            ELSE IF trainerID # existing
            THEN [rejected |-> TRUE, count |-> count]
            ELSE ScanBookings(bs, i + 1, userID, trainerID, existing, count)

\* the most bookings a user may hold with one trainer
BookingLimit == 3

\* LimitReached with > for >=
LimitReachedLate(count) == count > 3

\* the test of line 160 on userCountWithThisTrainer
LimitReached(count) == count >= BookingLimit

\* bookSlotCheck with the two lookups made before the scan of the ledger
bookSlotCheckLooksUpFirst(st, userID, trainerID, slot) ==
    LET scan == ScanBookings(st.Bookings, 1, userID, trainerID, 0, 0)
        idx == TrainerIndex(st.Trainers, trainerID)
        pos == IF idx = 0 THEN 0 ELSE SlotIndex(st.Trainers[idx].Slots, slot)
    IN IF idx = 0 THEN [err |-> "trainer_not_found", idx |-> 0, pos |-> 0]
       ELSE IF pos = 0 THEN [err |-> "slot_unavailable", idx |-> idx, pos |-> 0]
       ELSE IF scan.rejected THEN [err |-> "different_trainer", idx |-> 0, pos |-> 0]
       ELSE IF LimitReached(scan.count) THEN [err |-> "limit", idx |-> 0, pos |-> 0]
       ELSE [err |-> "", idx |-> idx, pos |-> pos]

\* bookSlot, lines 145-184: the error it returns ("" for nil) and, when
\* there is none, the 1-based positions idx of the trainer and pos of the slot
bookSlotCheck(st, userID, trainerID, slot) ==
    LET scan == ScanBookings(st.Bookings, 1, userID, trainerID, 0, 0)
        idx == TrainerIndex(st.Trainers, trainerID)
        pos == IF idx = 0 THEN 0 ELSE SlotIndex(st.Trainers[idx].Slots, slot)
    IN IF scan.rejected THEN [err |-> "different_trainer", idx |-> 0, pos |-> 0]
       ELSE IF LimitReached(scan.count) THEN [err |-> "limit", idx |-> 0, pos |-> 0]
       ELSE IF idx = 0 THEN [err |-> "trainer_not_found", idx |-> 0, pos |-> 0]
       ELSE IF pos = 0 THEN [err |-> "slot_unavailable", idx |-> idx, pos |-> 0]
       ELSE [err |-> "", idx |-> idx, pos |-> pos]

\* bookSlotCommit that fills the hole with the last label: slots[pos] =
\* slots[len-1] and the list cut by one
bookSlotCommitSwapRemove(st, idx, pos, userID, trainerID, slot, t) ==
    LET slots == st.Trainers[idx].Slots
    IN [st EXCEPT
          !.Trainers[idx].Slots =
              [i \in 1..(Len(slots) - 1) |-> IF i = pos THEN slots[Len(slots)] ELSE slots[i]],
          !.Bookings = Append(st.Bookings,
                          [UserID |-> userID, Trainer |-> trainerID,
                           TimeSlot |-> slot, BookedAt |-> t])]

\* bookSlotCommit on a catalogue whose trainers share one slice of slots: the
\* label leaves the list of every trainer that still has it
bookSlotCommitSharedSlots(st, idx, pos, userID, trainerID, slot, t) ==
    [st EXCEPT
        !.Trainers = [k \in 1..Len(st.Trainers) |->
                        [st.Trainers[k] EXCEPT
                            !.Slots = SelectSeq(st.Trainers[k].Slots, LAMBDA s : s # slot)]],
        !.Bookings = Append(st.Bookings,
                        [UserID |-> userID, Trainer |-> trainerID,
                         TimeSlot |-> slot, BookedAt |-> t])]

\* bookSlot, lines 186-194, at time t: the slot at pos leaves the list of the
\* trainer at idx and the booking is appended
bookSlotCommit(st, idx, pos, userID, trainerID, slot, t) ==
    [st EXCEPT
        !.Trainers[idx].Slots = RemoveAt(st.Trainers[idx].Slots, pos),
        !.Bookings = Append(st.Bookings,
                        [UserID |-> userID, Trainer |-> trainerID,
                         TimeSlot |-> slot, BookedAt |-> t])]

\* bookSlot that takes the slot off the list before it applies the rules: a
\* call it rejects for the ledger has removed the label all the same
bookSlotRemovesFirst(st, userID, trainerID, slot, t) ==
    LET chk == bookSlotCheck(st, userID, trainerID, slot)
        idx == TrainerIndex(st.Trainers, trainerID)
        pos == IF idx = 0 THEN 0 ELSE SlotIndex(st.Trainers[idx].Slots, slot)
    IN [err |-> chk.err,
        state |-> IF chk.err = ""
                  THEN bookSlotCommit(st, chk.idx, chk.pos, userID, trainerID, slot, t)
                  ELSE IF pos # 0
                  THEN [st EXCEPT !.Trainers[idx].Slots = RemoveAt(st.Trainers[idx].Slots, pos)]
                  ELSE st]

\* bookSlot at time t, run with nothing in between: the error it returns and
\* the AppState after it
bookSlot(st, userID, trainerID, slot, t) ==
    LET chk == bookSlotCheck(st, userID, trainerID, slot)
    IN [err |-> chk.err,
        state |-> IF chk.err # "" THEN st
                  ELSE bookSlotCommit(st, chk.idx, chk.pos, userID, trainerID, slot, t)]

\* HasPaid that only asks whether the user is known
HasPaidAnyUser(st, userID) == userID \in DOMAIN st.Users

\* user.HasPaid as the handlers of main read it, lines 375 and 402
HasPaid(st, userID) == st.Users[userID].HasPaid

\* scheduleKeyboard: whether state.Trainers[trainerID-1] is out of range (a panic)
scheduleKeyboardPanics(st, trainerID) == ~(trainerID \in 1..Len(st.Trainers))

\* scheduleKeyboard with the id itself as the index: state.Trainers[trainerID]
scheduleKeyboardOffByOne(st, trainerID) ==
    IF trainerID + 1 \in 1..Len(st.Trainers) THEN st.Trainers[trainerID + 1].Slots ELSE << >>

\* scheduleKeyboard, line 239: the slots it copies, those of
\* state.Trainers[trainerID-1] (position trainerID when counted from 1)
scheduleKeyboard(st, trainerID) == st.Trainers[(trainerID - 1) + 1].Slots

\* the blanks the scan of a number skips first, the runes fmt's isSpace holds:
\* U+0009 to U+000D without the newline (for Sscanf a newline is no blank, it
\* ends the scan with an error), the space, and the spaces beyond ASCII.  A
\* rune that cannot be written in a string here is written as its code point
Blanks ==
    {"\t", "U+000B", "\f", "\r", " ", "U+0085", "U+00A0", "U+1680",
     "U+2000", "U+2001", "U+2002", "U+2003", "U+2004", "U+2005", "U+2006",
     "U+2007", "U+2008", "U+2009", "U+200A",
     "U+2028", "U+2029", "U+202F", "U+205F", "U+3000"}

RECURSIVE SkipSpace(_)
SkipSpace(s) == IF Len(s) > 0 /\ s[1] \in Blanks THEN SkipSpace(Tail(s)) ELSE s

\* the characters the scan takes for the number after the sign: the digits
\* 0 to 9, as many as follow one another
RECURSIVE NumberRun(_)
NumberRun(s) ==
    IF Len(s) > 0 /\ IsDigit(s[1]) THEN <<s[1]>> \o NumberRun(Tail(s))
    ELSE << >>

\* fmt.Sscanf(s, "%d", &id), id being the value of the variable before the
\* call: blanks are skipped, a sign is taken, then the digits; without a
\* digit the scan fails; the token goes to strconv.ParseInt(tok, 10, 64),
\* which fails on a value that is no int64; on an error the variable keeps
\* its value.  What follows the token is not read.  int has 64 bits.
Sscanf(s, id) ==
    LET t == SkipSpace(s)
        sign == IF Len(t) > 0 /\ t[1] \in {"+", "-"} THEN <<t[1]>> ELSE << >>
        run1 == NumberRun(SubSeq(t, Len(sign) + 1, Len(t)))
    IN IF Len(run1) = 0 THEN id
       ELSE IF IsNumber(sign \o run1) THEN Atoi(sign \o run1)
       ELSE id

\* the id texts the updates carry
IdTexts == IdStrs \cup StepIdStrs \cup {d[1] : d \in SlotData \cup StepSlotData}

\* var id int; fmt.Sscanf(idStr, "%d", &id): what main holds in id after
\* the scan, for each id text
ScannedID == [idStr \in IdTexts |-> Sscanf(idStr, 0)]


---------------------------------------------------------------------------
(* main *)

\* the name main gives getOrCreateUser for a Message, lines 302-305:
\* strings.TrimSpace(FirstName + " " + LastName), the UserName when that is
\* empty; a name is the sequence of its words
MessageName(from) ==
    LET words == SelectSeq(<<from.FirstName, from.LastName>>, LAMBDA w : w # "")
    IN IF words = << >> THEN <<from.UserName>> ELSE words

\* the name main gives getOrCreateUser for a CallbackQuery, line 340
CallbackName(from) == IF from.FirstName = "" THEN << >> ELSE <<from.FirstName>>

\* what a step reports: the step ("callback" for a callback that only
\* answers), the error answered ("" for none), whether
\* bookSlot was called, and how the call of saveState ended ("none": no call);
\* logged: whether main wrote the error to the log; its one log call is the
\* log.Fatalf of line 280 on an error of loadState (the errors saveState
\* returns to the handlers are assigned to _)
Report(op, err, called, saved) ==
    [op |-> op, err |-> err, called |-> called, saved |-> saved,
     logged |-> (op = "load" /\ err # "")]

\* the wall clock, time.Now().Unix(), when bookSlot runs on st
Now(st) == ClockStart + Len(st.Bookings)

\* the outcomes a write may have: a failure while the disk has one left
Outcomes == IF faults > 0 THEN WriteOutcomes ELSE {"ok"}

Failed(out) == IF out = "ok" THEN 0 ELSE 1

\* goroutines other than main that call bookSlot
Callers == {"g1", "g2"}

\* a goroutine that has made no call
NoCall ==
    [pc |-> "idle", userID |-> 0, trainerID |-> 0, slot |-> "", err |-> "",
     idx |-> 0, pos |-> 0, seen |-> ZeroState]

\* the call site main is at: the line of the call and the function called
At(line, fn) == [line |-> line, fn |-> fn]

\* main between two updates, or before loadState
Idle ==
    [site |-> At(0, ""), i |-> 0, paid |-> FALSE, tr |-> 0, err |-> "",
     upd |-> [kind |-> "", userID |-> 0, text |-> "", idStr |-> << >>, slot |-> ""]]

\* main is the only goroutine and a handler is one step: nobody else touches
\* the mutex, and the mutex is free again when the handler is done
MainOnly == run = Idle /\ UNCHANGED <<stateMu, calls, run>>

\* the process starts with no file: the first run of the bot
Init ==
    /\ phase = "boot"
    /\ state = ZeroState
    /\ disk = NoDocFile("missing")
    /\ faults = 0
    /\ last = Report("none", "", FALSE, "none")
    /\ stateMu = "free"
    /\ calls = [c \in Callers |-> NoCall]
    /\ run = Idle

\* main, lines 279-281, when there is no file: loadState installs the fresh
\* state and saves it; an error of saveState is fatal
LoadMissing ==
    /\ MainOnly
    /\ phase = "boot"
    /\ loadState(disk, state).save
    /\ \E out \in Outcomes :
        /\ state' = loadState(disk, state).state
        /\ disk' = saveState(state', disk, out)
        /\ faults' = faults - Failed(out)
        /\ phase' = IF out = "ok" THEN "run" ELSE "dead"
        /\ last' = Report("load", IF out = "ok" THEN "" ELSE "save", FALSE,
                          IF out = "ok" THEN "ok" ELSE "failed")

\* main, lines 279-281, when there is a file: loadState installs what it
\* decodes, or returns the error that ends the process
LoadFile ==
    /\ MainOnly
    /\ phase = "boot"
    /\ ~loadState(disk, state).save
    /\ state' = loadState(disk, state).state
    /\ phase' = IF loadState(disk, state).err = "" THEN "run" ELSE "dead"
    /\ last' = Report("load", loadState(disk, state).err, FALSE, "none")
    /\ UNCHANGED <<disk, faults>>

\* the process is started again: the memory of the old process is gone
Restart ==
    /\ MainOnly
    /\ phase \in {"run", "dead"}
    /\ phase' = "boot"
    /\ state' = ZeroState
    /\ last' = Report("none", "", FALSE, "none")
    /\ UNCHANGED <<disk, faults>>

\* an update with a Message, lines 300-335: the user is created when new, and
\* every branch only sends
HandleMessage(userID, name, text) ==
    /\ MainOnly
    /\ phase = "run"
    /\ state' = getOrCreateUser(state, userID, name)
    /\ last' = Report("message", "", FALSE, "none")
    /\ UNCHANGED <<phase, disk, faults>>

\* a callback "menu" or "trainers", lines 337-356
HandleNavigation(userID, name, data) ==
    /\ MainOnly
    /\ phase = "run"
    /\ state' = getOrCreateUser(state, userID, name)
    /\ last' = Report("callback", "", FALSE, "none")
    /\ UNCHANGED <<phase, disk, faults>>

\* a callback "trainer_<id>", lines 358-372
HandleTrainer(userID, name, idStr) ==
    /\ MainOnly
    /\ phase = "run"
    /\ state' = getOrCreateUser(state, userID, name)
    /\ last' = Report("callback",
                      IF getTrainerByID(state', ScannedID[idStr]) = 0
                      THEN "trainer_not_found" ELSE "",
                      FALSE, "none")
    /\ UNCHANGED <<phase, disk, faults>>

\* a callback "book_<id>", lines 374-391: the schedule of the trainer is shown
\* to a user who has paid; scheduleKeyboard panics on an index out of range
HandleBook(userID, name, idStr) ==
    /\ MainOnly
    /\ phase = "run"
    /\ state' = getOrCreateUser(state, userID, name)
    /\ LET id == ScannedID[idStr]
           i == getTrainerByID(state', id)
           err == IF ~HasPaid(state', userID) THEN "unpaid"
                  ELSE IF i = 0 THEN "trainer_not_found"
                  ELSE IF scheduleKeyboardPanics(state', state'.Trainers[i].ID) THEN "panic"
                  ELSE ""
       IN /\ last' = Report("book", err, FALSE, "none")
          /\ phase' = IF err = "panic" THEN "dead" ELSE "run"
    /\ UNCHANGED <<disk, faults>>

\* a callback "slot_<id>" with no second part, lines 393-397
HandleSlotNoLabel(userID, name, idStr) ==
    /\ MainOnly
    /\ phase = "run"
    /\ state' = getOrCreateUser(state, userID, name)
    /\ last' = Report("callback", "", FALSE, "none")
    /\ UNCHANGED <<phase, disk, faults>>

\* a callback "slot_<id>_<label>" from a user who has not paid, lines 393-405
HandleSlotUnpaid(userID, name, idStr, slot) ==
    /\ MainOnly
    /\ phase = "run"
    /\ state' = getOrCreateUser(state, userID, name)
    /\ ~HasPaid(state', userID)
    /\ last' = Report("slot", "unpaid", FALSE, "none")
    /\ UNCHANGED <<phase, disk, faults>>

\* a callback "slot_<id>_<label>" from a user who has paid, when bookSlot
\* returns an error, lines 393-410
HandleSlotRejected(userID, name, idStr, slot) ==
    /\ MainOnly
    /\ phase = "run"
    /\ LET st1 == getOrCreateUser(state, userID, name)
           res == bookSlot(st1, userID, ScannedID[idStr], slot, Now(st1))
       IN /\ HasPaid(st1, userID)
          /\ res.err # ""
          /\ state' = res.state
          /\ last' = Report("slot", res.err, TRUE, "none")
    /\ UNCHANGED <<phase, disk, faults>>

\* a callback "slot_<id>_<label>" from a user who has paid, when bookSlot
\* succeeds, lines 393-420: the state is saved, the error of saveState is
\* dropped, and the schedule is shown again
HandleSlotBooked(userID, name, idStr, slot) ==
    /\ MainOnly
    /\ phase = "run"
    /\ LET st1 == getOrCreateUser(state, userID, name)
           trainerID == ScannedID[idStr]
           res == bookSlot(st1, userID, trainerID, slot, Now(st1))
       IN /\ HasPaid(st1, userID)
          /\ res.err = ""
          /\ state' = res.state
          /\ \E out \in Outcomes :
              /\ disk' = saveState(state', disk, out)
              /\ faults' = faults - Failed(out)
              /\ LET i == getTrainerByID(state', trainerID)
                     panics == scheduleKeyboardPanics(state', state'.Trainers[i].ID)
                 IN /\ last' = Report("slot", IF panics THEN "panic" ELSE "", TRUE,
                                      IF out = "ok" THEN "ok" ELSE "failed")
                    /\ phase' = IF panics THEN "dead" ELSE "run"

\* a callback "pay_<plan>", lines 423-434
HandlePay(userID, name) ==
    /\ MainOnly
    /\ phase = "run"
    /\ LET st1 == getOrCreateUser(state, userID, name)
       IN state' = [st1 EXCEPT !.Users[userID].HasPaid = TRUE]
    /\ \E out \in Outcomes :
        /\ disk' = saveState(state', disk, out)
        /\ faults' = faults - Failed(out)
        /\ last' = Report("pay", "", FALSE, IF out = "ok" THEN "ok" ELSE "failed")
    /\ UNCHANGED phase

\* one update of the loop of main, lines 299-436
HandleUpdate ==
    \E userID \in UserIDs :
      LET name == CallbackName(From(userID)) IN
        \/ \E text \in Texts : HandleMessage(userID, MessageName(From(userID)), text)
        \/ \E data \in {"menu", "trainers"} : HandleNavigation(userID, name, data)
        \/ \E idStr \in IdStrs :
            \/ HandleTrainer(userID, name, idStr)
            \/ HandleBook(userID, name, idStr)
        \/ HandleSlotNoLabel(userID, name, <<"1">>)
        \/ \E d \in SlotData :
            \/ HandleSlotUnpaid(userID, name, d[1], d[2])
            \/ HandleSlotRejected(userID, name, d[1], d[2])
            \/ HandleSlotBooked(userID, name, d[1], d[2])
        \/ HandlePay(userID, name)

Next == LoadMissing \/ LoadFile \/ Restart \/ HandleUpdate

Spec == Init /\ [][Next]_vars

\* the first run of the bot on a disk that may fail writes
InitFaulty ==
    /\ phase = "boot"
    /\ state = ZeroState
    /\ disk = NoDocFile("missing")
    /\ faults = MaxWriteFailures
    /\ last = Report("none", "", FALSE, "none")
    /\ stateMu = "free"
    /\ calls = [c \in Callers |-> NoCall]
    /\ run = Idle

SpecFaulty == InitFaulty /\ [][Next]_vars


---------------------------------------------------------------------------
(* Starting on a file that is already there *)

\* a user as a paying customer of an earlier run
PaidUser(id) == [ID |-> id, Name |-> <<"User">>, HasPaid |-> TRUE]

\* the ledger after the users of us, three slots each, booked the first n
\* slots of trainer 1 in order
RECURSIVE FullLedger(_, _)
FullLedger(us, n) ==
    IF n = 0 THEN << >>
    ELSE Append(FullLedger(us, n - 1),
                [UserID |-> us[((n - 1) \div BookingLimit) + 1], Trainer |-> 1,
                 TimeSlot |-> defaultSlots[n], BookedAt |-> ClockStart + n - 1])

\* a state of an earlier run: five users have booked every slot of trainer 1
StoredFull ==
    LET us == <<7, 10, 11, 12, 13>>
    IN [Users |-> [id \in {us[i] : i \in 1..Len(us)} |-> PaidUser(id)],
        UsersNil |-> FALSE,
        Trainers |-> [defaultTrainers EXCEPT ![1].Slots = << >>],
        Bookings |-> FullLedger(us, Len(defaultSlots))]

\* a state of an earlier run: user 7 has paid and booked, user 10 has not paid
StoredBooked ==
    [Users |-> (7 :> PaidUser(7)) @@ (10 :> [ID |-> 10, Name |-> <<"Bob">>, HasPaid |-> FALSE]),
     UsersNil |-> FALSE,
     Trainers |-> [defaultTrainers EXCEPT ![1].Slots = Tail(defaultSlots)],
     Bookings |-> <<[UserID |-> 7, Trainer |-> 1, TimeSlot |-> "08:00", BookedAt |-> ClockStart]>>]

\* a catalogue written by hand whose first trainer has id 0
StoredZeroID ==
    [FreshState EXCEPT !.Trainers =
        <<[defaultTrainers[1] EXCEPT !.ID = 0], [defaultTrainers[2] EXCEPT !.ID = 1]>>]

\* the files the bot may find at statePath when it starts
StoredFiles ==
    { NoDocFile("missing"),
      NoDocFile("unreadable"),
      NoDocFile("malformed"),
      \* a document with a member of "users" whose key is no number
      DocFile([Marshal(StoredBooked) EXCEPT !.users[1].key = <<"x">>]),
      \* a document with a member of "users" whose key is no int64
      DocFile([Marshal(StoredBooked) EXCEPT !.users[1].key = MinInt64Digits]),
      \* a document with one user under a key with a sign, and nothing else
      DocFile([Marshal(ZeroState) EXCEPT
                 !.users_null = FALSE,
                 !.users = <<[key |-> <<"+", "1", "0">>,
                              val |-> EncodeUser([ID |-> 10, Name |-> <<"Bob">>,
                                                  HasPaid |-> FALSE])]>>]),
      \* the document {}
      DocFile(Marshal(ZeroState)),
      \* a document that has lost its trainers
      DocFile([Marshal(StoredBooked) EXCEPT !.trainers = << >>]),
      DocFile(Marshal(StoredFull)),
      DocFile(Marshal(StoredZeroID)) }

InitStored ==
    /\ phase = "boot"
    /\ state = ZeroState
    /\ disk \in StoredFiles
    /\ faults = 0
    /\ last = Report("none", "", FALSE, "none")
    /\ stateMu = "free"
    /\ calls = [c \in Callers |-> NoCall]
    /\ run = Idle

SpecStored == InitStored /\ [][Next]_vars


---------------------------------------------------------------------------
(* bookSlot called by several goroutines at once.  main calls bookSlot from *)
(* its one loop; here the function is run statement by statement by the    *)
(* goroutines of Callers, so that its locking is what orders them.         *)

\* a goroutine calls bookSlot(userID, trainerID, slot)
BookCall(c, userID, trainerID, slot) ==
    /\ phase = "race"
    /\ calls[c].pc = "idle"
    /\ calls' = [calls EXCEPT ![c] = [NoCall EXCEPT !.pc = "lock", !.userID = userID,
                                         !.trainerID = trainerID, !.slot = slot]]
    /\ UNCHANGED <<phase, state, disk, faults, last, stateMu, run>>

\* BookLock without the wait: the critical section is entered at once
BookLockNoWait(c) ==
    /\ calls[c].pc = "lock"
    /\ stateMu' = c
    /\ calls' = [calls EXCEPT ![c].pc = "check", ![c].seen = state]
    /\ UNCHANGED <<phase, state, disk, faults, last, run>>

\* stateMu.Lock(), line 142: waits until the mutex is free
BookLock(c) ==
    /\ calls[c].pc = "lock"
    /\ stateMu = "free"
    /\ stateMu' = c
    /\ calls' = [calls EXCEPT ![c].pc = "check", ![c].seen = state]
    /\ UNCHANGED <<phase, state, disk, faults, last, run>>

\* lines 145-184: the scan of the ledger, the two rules and the two lookups
BookCheck(c) ==
    /\ calls[c].pc = "check"
    /\ LET chk == bookSlotCheck(state, calls[c].userID, calls[c].trainerID, calls[c].slot)
       IN calls' = [calls EXCEPT ![c].pc = IF chk.err = "" THEN "commit" ELSE "unlock",
                                 ![c].err = chk.err, ![c].idx = chk.idx, ![c].pos = chk.pos]
    /\ UNCHANGED <<phase, state, disk, faults, last, stateMu, run>>

\* lines 186-194: the slot is removed and the booking appended
BookCommit(c) ==
    /\ calls[c].pc = "commit"
    /\ state' = bookSlotCommit(state, calls[c].idx, calls[c].pos, calls[c].userID,
                               calls[c].trainerID, calls[c].slot, Now(state))
    /\ calls' = [calls EXCEPT ![c].pc = "unlock"]
    /\ UNCHANGED <<phase, disk, faults, last, stateMu, run>>

\* the deferred stateMu.Unlock(), line 143, and the return
BookUnlock(c) ==
    /\ calls[c].pc = "unlock"
    /\ stateMu' = "free"
    /\ calls' = [calls EXCEPT ![c].pc = "done"]
    /\ UNCHANGED <<phase, state, disk, faults, last, run>>

\* the state after user 7 has booked two slots of trainer 1
TwoBooked ==
    LET s1 == bookSlot(FreshState, 7, 1, "08:00", Now(FreshState)).state
    IN bookSlot(s1, 7, 1, "09:00", Now(s1)).state

InitRace ==
    /\ phase = "race"
    /\ state \in {FreshState, TwoBooked}
    /\ disk = NoDocFile("missing")
    /\ faults = 0
    /\ last = Report("none", "", FALSE, "none")
    /\ stateMu = "free"
    /\ calls = [c \in Callers |-> NoCall]
    /\ run = Idle

NextRace ==
    \E c \in Callers :
        \/ \E userID \in UserIDs, d \in SlotData : BookCall(c, userID, ScannedID[d[1]], d[2])
        \/ BookLock(c)
        \/ BookCheck(c)
        \/ BookCommit(c)
        \/ BookUnlock(c)

SpecRace == InitRace /\ [][NextRace]_vars


---------------------------------------------------------------------------
(* main statement by statement.  Above, a handler is one step; here main is *)
(* followed through the calls it makes, and each call through its Lock, its *)
(* work on the shared state and its Unlock, so that what main does with the *)
(* mutex held, and what without, can be told apart.  main is the only       *)
(* goroutine that handles updates (the loop of line 299).                   *)

\* texts of plain messages, one for each branch of lines 309-334
StepTexts == {"/start", "Trenery", "Prais abonementov", "hello"}

\* an update as main reads it: a Message with its text, or a CallbackQuery
\* with its data split as main splits it
Update(kind, userID, text, idStr, slot) ==
    [kind |-> kind, userID |-> userID, text |-> text, idStr |-> idStr, slot |-> slot]

\* the updates the channel may deliver
StepUpdates ==
    {Update("message", u, t, << >>, "") : u \in UserIDs, t \in StepTexts}
        \cup {Update(k, u, "", << >>, "") : k \in {"menu", "trainers", "pay_", "other"}, u \in UserIDs}
        \cup {Update(k, u, "", id, "") :
                k \in {"trainer_", "book_"}, u \in UserIDs, id \in StepIdStrs}
        \cup {Update("slot_nolabel", u, "", id, "") : u \in UserIDs, id \in StepNoLabel}
        \cup {Update("slot_", u, "", d[1], d[2]) : u \in UserIDs, d \in StepSlotData}

\* the three statements of every function that works on state: Lock, the
\* work, Unlock
Locked == <<"lock", "access", "unlock">>

\* Stmts with the keyboard builders returning without Unlock
StmtsKeyboardKeepsLock(fn) ==
    IF fn \in {"send", "answerCallback"} THEN <<"transport">>
    ELSE IF fn = "read" THEN <<"read">>
    ELSE IF fn \in {"trainersInlineKeyboard", "scheduleKeyboard"} THEN <<"lock", "access">>
    ELSE Locked

\* Stmts with loadState calling saveState before its Unlock
StmtsLoadKeepsLock(fn) ==
    IF fn \in {"send", "answerCallback"} THEN <<"transport">>
    ELSE IF fn = "read" THEN <<"read">>
    ELSE IF fn = "install" THEN <<"lock", "access">>
    ELSE Locked

\* the statements of a call, as far as the mutex, the shared state and the
\* transport go:
\*   send (439-445), answerCallback (447-451): one request to Telegram;
\*   read: main reads a field through the pointer a call returned
\*         (user.HasPaid, tr.Name, tr.Bio, tr.Achievements, tr.ID);
\*   install (80-82, 101-103), saveState (108-116), getOrCreateUser
\*   (120-127), getTrainerByID (131-138), bookSlot (142-196),
\*   trainersInlineKeyboard (209-212), scheduleKeyboard (238-240) and pay
\*   (424-426): Lock, the work, Unlock
Stmts(fn) ==
    IF fn \in {"send", "answerCallback"} THEN <<"transport">>
    ELSE IF fn = "read" THEN <<"read">>
    ELSE Locked

\* main is done with the update, or with loadState
Done == At(0, "")

\* the call main makes first for an update
FirstSite(upd) ==
    IF upd.kind = "message" THEN At(307, "getOrCreateUser") ELSE At(340, "getOrCreateUser")

\* the call loadState makes first, or Done when it returns an error at once
FirstLoadSite(file) ==
    IF file.kind = "missing" THEN At(80, "install")
    ELSE IF loadState(file, ZeroState).err = "" THEN At(101, "install")
    ELSE Done

\* the call that follows the one main has just returned from, r being main's
\* position and locals at the return
NextSite(r) ==
    LET s == r.site
        k == r.upd.kind
    IN CASE s = At(80, "install") -> At(83, "saveState")
         [] s = At(307, "getOrCreateUser") ->
                IF r.upd.text = "/start" THEN At(313, "send")
                ELSE IF r.upd.text = "Trenery" THEN At(324, "read")
                ELSE IF r.upd.text = "Prais abonementov" THEN At(329, "send")
                ELSE At(333, "send")
         [] s = At(324, "read") -> At(324, "trainersInlineKeyboard")
         [] s = At(324, "trainersInlineKeyboard") -> At(325, "send")
         [] s = At(340, "getOrCreateUser") -> At(343, "answerCallback")
         [] s = At(343, "answerCallback") ->
                IF k = "menu" THEN At(348, "send")
                ELSE IF k = "trainers" THEN At(353, "read")
                ELSE IF k = "trainer_" THEN At(362, "getTrainerByID")
                ELSE IF k = "book_" THEN At(375, "read")
                ELSE IF k = "slot_" THEN At(402, "read")
                ELSE IF k = "pay_" THEN At(424, "pay")
                ELSE Done
         [] s = At(353, "read") -> At(353, "trainersInlineKeyboard")
         [] s = At(353, "trainersInlineKeyboard") -> At(354, "send")
         [] s = At(362, "getTrainerByID") ->
                IF r.tr = 0 THEN At(364, "send") ELSE At(367, "read")
         [] s = At(367, "read") -> At(370, "send")
         [] s = At(375, "read") ->
                IF ~r.paid THEN At(376, "send") ELSE At(382, "getTrainerByID")
         [] s = At(382, "getTrainerByID") ->
                IF r.tr = 0 THEN At(384, "send") ELSE At(387, "read")
         [] s = At(387, "read") -> At(388, "scheduleKeyboard")
         [] s = At(388, "scheduleKeyboard") -> At(389, "send")
         [] s = At(402, "read") ->
                IF ~r.paid THEN At(403, "send") ELSE At(407, "bookSlot")
         [] s = At(407, "bookSlot") ->
                IF r.err # "" THEN At(408, "send") ELSE At(411, "saveState")
         [] s = At(411, "saveState") -> At(414, "send")
         [] s = At(414, "send") -> At(416, "getTrainerByID")
         [] s = At(416, "getTrainerByID") -> At(417, "read")
         [] s = At(417, "read") -> At(418, "scheduleKeyboard")
         [] s = At(418, "scheduleKeyboard") -> At(419, "send")
         [] s = At(424, "pay") -> At(427, "saveState")
         [] s = At(427, "saveState") -> At(429, "send")
         [] s = At(429, "send") -> At(431, "trainersInlineKeyboard")
         [] s = At(431, "trainersInlineKeyboard") -> At(432, "send")
         [] OTHER -> Done

\* the statement main is at, "" between updates
Stmt == IF run.site = Done THEN "" ELSE Stmts(run.site.fn)[run.i]

\* main's position after the statement at hand, r being main's locals after it
Advance(r) ==
    IF r.i < Len(Stmts(r.site.fn)) THEN [r EXCEPT !.i = r.i + 1]
    ELSE IF NextSite(r) = Done THEN Idle
    ELSE [r EXCEPT !.site = NextSite(r), !.i = 1]

\* main after the statement at hand: loadState has returned when main is at
\* no call any more, and an error of its saveState ends the process
Proceed(r) ==
    /\ run' = Advance(r)
    /\ phase' = IF phase = "boot" /\ Advance(r) = Idle
                THEN (IF r.err = "" THEN "run" ELSE "dead")
                ELSE phase

\* main calls loadState, line 279
StartLoad ==
    /\ phase = "boot" /\ run = Idle
    /\ IF FirstLoadSite(disk) = Done
       THEN phase' = "dead" /\ run' = run
       ELSE phase' = phase /\ run' = [Idle EXCEPT !.site = FirstLoadSite(disk), !.i = 1]
    /\ UNCHANGED <<state, disk, faults, last, stateMu, calls>>

\* main takes an update from the channel, line 299
Dispatch(upd) ==
    /\ phase = "run" /\ run = Idle
    /\ run' = [Idle EXCEPT !.site = FirstSite(upd), !.i = 1, !.upd = upd]
    /\ UNCHANGED <<phase, state, disk, faults, last, stateMu, calls>>

\* stateMu.Lock(): main waits until the mutex is free
StepLock ==
    /\ phase \in {"boot", "run"} /\ Stmt = "lock"
    /\ stateMu = "free"
    /\ stateMu' = "main"
    /\ Proceed(run)
    /\ UNCHANGED <<state, disk, faults, last, calls>>

\* stateMu.Unlock()
StepUnlock ==
    /\ phase \in {"boot", "run"} /\ Stmt = "unlock"
    /\ stateMu' = "free"
    /\ Proceed(run)
    /\ UNCHANGED <<state, disk, faults, last, calls>>

\* the work of the function main is in, between its Lock and its Unlock
StepAccess ==
    /\ phase \in {"boot", "run"} /\ Stmt = "access"
    /\ LET fn == run.site.fn
           upd == run.upd
           name == IF upd.kind = "message" THEN MessageName(From(upd.userID))
                   ELSE CallbackName(From(upd.userID))
           id == ScannedID[upd.idStr]
       IN CASE fn = "install" ->
                 /\ state' = loadState(disk, state).state
                 /\ Proceed(run)
                 /\ UNCHANGED <<disk, faults>>
            [] fn = "saveState" ->
                 \E out \in Outcomes :
                    /\ disk' = saveState(state, disk, out)
                    /\ faults' = faults - Failed(out)
                    /\ Proceed([run EXCEPT !.err = IF phase = "boot" /\ out # "ok"
                                                   THEN "save" ELSE run.err])
                    /\ UNCHANGED state
            [] fn = "getOrCreateUser" ->
                 /\ state' = getOrCreateUser(state, upd.userID, name)
                 /\ Proceed(run)
                 /\ UNCHANGED <<disk, faults>>
            [] fn = "getTrainerByID" ->
                 /\ Proceed([run EXCEPT !.tr = getTrainerByID(state, id)])
                 /\ UNCHANGED <<state, disk, faults>>
            [] fn = "bookSlot" ->
                 /\ state' = bookSlot(state, upd.userID, id, upd.slot, Now(state)).state
                 /\ Proceed([run EXCEPT
                                !.err = bookSlot(state, upd.userID, id, upd.slot, Now(state)).err])
                 /\ UNCHANGED <<disk, faults>>
            [] fn = "pay" ->
                 /\ state' = [state EXCEPT !.Users[upd.userID].HasPaid = TRUE]
                 /\ Proceed(run)
                 /\ UNCHANGED <<disk, faults>>
            [] fn = "scheduleKeyboard" ->
                 /\ IF scheduleKeyboardPanics(state, state.Trainers[run.tr].ID)
                    THEN phase' = "dead" /\ run' = run
                    ELSE Proceed(run)
                 /\ UNCHANGED <<state, disk, faults>>
            [] OTHER ->
                 /\ Proceed(run)
                 /\ UNCHANGED <<state, disk, faults>>
    /\ UNCHANGED <<last, stateMu, calls>>

\* main reads a field of the User or the Trainer that the pointer it holds
\* points to; what it reads of the user, HasPaid, decides its branch
StepRead ==
    /\ phase \in {"boot", "run"} /\ Stmt = "read"
    /\ Proceed([run EXCEPT !.paid = HasPaid(state, run.upd.userID)])
    /\ UNCHANGED <<state, disk, faults, last, stateMu, calls>>

\* main sends a message or answers the callback: a request to Telegram
StepTransport ==
    /\ phase \in {"boot", "run"} /\ Stmt = "transport"
    /\ Proceed(run)
    /\ UNCHANGED <<state, disk, faults, last, stateMu, calls>>

\* the process starts on no file, or on the file of a first run
InitSteps ==
    /\ phase = "boot"
    /\ state = ZeroState
    /\ disk \in {NoDocFile("missing"), DocFile(Marshal(FreshState))}
    /\ faults = 0
    /\ last = Report("none", "", FALSE, "none")
    /\ stateMu = "free"
    /\ calls = [c \in Callers |-> NoCall]
    /\ run = Idle

NextSteps ==
    \/ StartLoad
    \/ \E upd \in StepUpdates : Dispatch(upd)
    \/ StepLock
    \/ StepAccess
    \/ StepUnlock
    \/ StepRead
    \/ StepTransport

SpecSteps == InitSteps /\ [][NextSteps]_vars

---------------------------------------------------------------------------
(* Concurrent handlers.  The body of main's loop (lines 300-435) run by two  *)
(* goroutines, one per update, as the design has its handlers; main runs     *)
(* loadState first and then hands the updates over.  Each goroutine goes     *)
(* through the calls of its update statement by statement as main does, its  *)
(* position and locals in calls[c], and waits at Lock while the mutex is     *)
(* held.                                                                     *)

\* the updates the handlers take: one for every call site main has of a
\* function that locks stateMu, from a user who pays and books and from one
\* who only looks
HandlerUpdates ==
    {Update("message", 10, "Trenery", << >>, ""),
     Update("trainers", 7, "", << >>, ""),
     Update("trainer_", 7, "", <<"\f", "1", "_", "2">>, ""),
     Update("book_", 7, "", <<"\f", "1", "_", "2">>, ""),
     Update("slot_", 7, "", <<"1">>, "08:00"),
     Update("pay_", 7, "", << >>, "")}

\* the statement the handler c is at, "" when it has no update
HandlerStmt(c) ==
    IF calls[c].site = Done THEN "" ELSE Stmts(calls[c].site.fn)[calls[c].i]

\* the handler c after the statement at hand, r being its locals after it
HandlerProceed(c, r) == calls' = [calls EXCEPT ![c] = Advance(r)]

\* the handler c takes an update, line 299
HandlerDispatch(c, upd) ==
    /\ phase = "run" /\ calls[c] = Idle
    /\ calls' = [calls EXCEPT ![c] = [Idle EXCEPT !.site = FirstSite(upd), !.i = 1, !.upd = upd]]
    /\ UNCHANGED <<phase, state, disk, faults, last, stateMu, run>>

\* stateMu.Lock(): the handler waits until the mutex is free
HandlerLock(c) ==
    /\ phase = "run" /\ HandlerStmt(c) = "lock"
    /\ stateMu = "free"
    /\ stateMu' = c
    /\ HandlerProceed(c, calls[c])
    /\ UNCHANGED <<phase, state, disk, faults, last, run>>

\* stateMu.Unlock()
HandlerUnlock(c) ==
    /\ phase = "run" /\ HandlerStmt(c) = "unlock"
    /\ stateMu' = "free"
    /\ HandlerProceed(c, calls[c])
    /\ UNCHANGED <<phase, state, disk, faults, last, run>>

\* the work of the function the handler is in, between its Lock and its
\* Unlock; a panic of scheduleKeyboard ends the process
HandlerAccess(c) ==
    /\ phase = "run" /\ HandlerStmt(c) = "access"
    /\ LET r == calls[c]
           fn == r.site.fn
           upd == r.upd
           name == IF upd.kind = "message" THEN MessageName(From(upd.userID))
                   ELSE CallbackName(From(upd.userID))
           id == ScannedID[upd.idStr]
       IN CASE fn = "saveState" ->
                 \E out \in Outcomes :
                    /\ disk' = saveState(state, disk, out)
                    /\ faults' = faults - Failed(out)
                    /\ HandlerProceed(c, r)
                    /\ UNCHANGED <<state, phase>>
            [] fn = "getOrCreateUser" ->
                 /\ state' = getOrCreateUser(state, upd.userID, name)
                 /\ HandlerProceed(c, r)
                 /\ UNCHANGED <<disk, faults, phase>>
            [] fn = "getTrainerByID" ->
                 /\ HandlerProceed(c, [r EXCEPT !.tr = getTrainerByID(state, id)])
                 /\ UNCHANGED <<state, disk, faults, phase>>
            [] fn = "bookSlot" ->
                 /\ state' = bookSlot(state, upd.userID, id, upd.slot, Now(state)).state
                 /\ HandlerProceed(c, [r EXCEPT
                        !.err = bookSlot(state, upd.userID, id, upd.slot, Now(state)).err])
                 /\ UNCHANGED <<disk, faults, phase>>
            [] fn = "pay" ->
                 /\ state' = [state EXCEPT !.Users[upd.userID].HasPaid = TRUE]
                 /\ HandlerProceed(c, r)
                 /\ UNCHANGED <<disk, faults, phase>>
            [] fn = "scheduleKeyboard" ->
                 /\ IF scheduleKeyboardPanics(state, state.Trainers[r.tr].ID)
                    THEN phase' = "dead" /\ calls' = calls
                    ELSE phase' = phase /\ HandlerProceed(c, r)
                 /\ UNCHANGED <<state, disk, faults>>
            [] OTHER ->
                 /\ HandlerProceed(c, r)
                 /\ UNCHANGED <<state, disk, faults, phase>>
    /\ UNCHANGED <<last, stateMu, run>>

\* the handler reads a field through the pointer it holds
HandlerRead(c) ==
    /\ phase = "run" /\ HandlerStmt(c) = "read"
    /\ HandlerProceed(c, [calls[c] EXCEPT !.paid = HasPaid(state, calls[c].upd.userID)])
    /\ UNCHANGED <<phase, state, disk, faults, last, stateMu, run>>

\* the handler sends a message or answers the callback
HandlerTransport(c) ==
    /\ phase = "run" /\ HandlerStmt(c) = "transport"
    /\ HandlerProceed(c, calls[c])
    /\ UNCHANGED <<phase, state, disk, faults, last, stateMu, run>>

\* the statement the handler c is at, whichever it is
HandlerStep(c) ==
    \/ HandlerLock(c)
    \/ HandlerAccess(c)
    \/ HandlerUnlock(c)
    \/ HandlerRead(c)
    \/ HandlerTransport(c)

\* the statements of main in loadState
LoadStep == StepLock \/ StepAccess \/ StepUnlock

\* the process starts on no file, or on the file of a first run; no handler
\* has an update
InitHandlers ==
    /\ phase = "boot"
    /\ state = ZeroState
    /\ disk \in {NoDocFile("missing"), DocFile(Marshal(FreshState))}
    /\ faults = 0
    /\ last = Report("none", "", FALSE, "none")
    /\ stateMu = "free"
    /\ calls = [c \in Callers |-> Idle]
    /\ run = Idle

NextHandlers ==
    \/ StartLoad
    \/ StepLock
    \/ StepAccess
    \/ StepUnlock
    \/ \E c \in Callers :
          \/ \E upd \in HandlerUpdates : HandlerDispatch(c, upd)
          \/ HandlerLock(c)
          \/ HandlerAccess(c)
          \/ HandlerUnlock(c)
          \/ HandlerRead(c)
          \/ HandlerTransport(c)

\* the Go scheduler keeps running every goroutine: a statement that can run
\* does run; and sync.Mutex hands the mutex to a goroutine that has waited
\* at Lock (its starvation mode), so a handler that finds the mutex free
\* again and again does get it
SpecHandlers ==
    /\ InitHandlers /\ [][NextHandlers]_vars
    /\ WF_vars(StartLoad) /\ WF_vars(LoadStep)
    /\ \A c \in Callers : WF_vars(HandlerStep(c)) /\ SF_vars(HandlerLock(c))


---------------------------------------------------------------------------
(* Properties *)

\* the positions of the ledger of st that hold a booking of user u
BookingsOf(st, u) == {i \in 1..Len(st.Bookings) : st.Bookings[i].UserID = u}

\* the number of bookings user u holds with trainer id t
CountWith(st, u, t) == Cardinality({i \in BookingsOf(st, u) : st.Bookings[i].Trainer = t})

\* the users that appear in the ledger or in the store
KnownUsers(st) == DOMAIN st.Users \cup {st.Bookings[i].UserID : i \in 1..Len(st.Bookings)}

\* the trainer ids that appear in the catalogue or in the ledger
KnownTrainers(st) ==
    {st.Trainers[i].ID : i \in 1..Len(st.Trainers)}
        \cup {st.Bookings[i].Trainer : i \in 1..Len(st.Bookings)}

\* this step is main handling the callback slot_<d[1]>_<d[2]> of a paid user
\* u, that is, a step that calls bookSlot
SlotStep(u, d) ==
    \/ HandleSlotRejected(u, CallbackName(From(u)), d[1], d[2])
    \/ HandleSlotBooked(u, CallbackName(From(u)), d[1], d[2])

\* all bookings of one user carry the same trainer id
OneTrainerEach(st) ==
    \A i, j \in 1..Len(st.Bookings) :
        st.Bookings[i].UserID = st.Bookings[j].UserID
            => st.Bookings[i].Trainer = st.Bookings[j].Trainer

\* C1 (single-trainer constraint): in every state reached from a loaded
\* state, all bookings of one user carry the same trainer id, and a call of
\* bookSlot by a user who holds a booking with another trainer is answered
\* with the different-trainer error; trainer id 0 is no exception.
C1_SingleTrainer ==
    /\ [](OneTrainerEach(state))
    /\ [][\A u \in UserIDs, d \in SlotData :
            (/\ last'.called
             /\ \E i \in BookingsOf(state, u) : state.Bookings[i].Trainer # ScannedID[d[1]]
             /\ SlotStep(u, d))
                => last'.err = "different_trainer"]_vars

\* a user who holds a booking with trainer 0 only has just been refused another trainer
C1_Witness ==
    /\ last.op = "slot" /\ last.err = "different_trainer"
    /\ Len(state.Bookings) > 0
    /\ \A i \in 1..Len(state.Bookings) : state.Bookings[i].Trainer = 0

\* C2 (per-trainer cap): no user ever holds more than 3 bookings with one
\* trainer, and a call of bookSlot by a user who holds 3 bookings with the
\* requested trainer is answered with the limit error.
C2_PerTrainerCap ==
    /\ [](\A u \in KnownUsers(state), t \in KnownTrainers(state) : CountWith(state, u, t) <= 3)
    /\ [][\A u \in UserIDs, d \in SlotData :
            (/\ last'.called
             /\ CountWith(state, u, ScannedID[d[1]]) >= 3
             /\ SlotStep(u, d))
                => last'.err = "limit"]_vars

\* a user with 3 bookings with one trainer has just been refused a fourth,
\* while that trainer still has the slot
C2_Witness ==
    /\ last.op = "slot" /\ last.err = "limit"
    /\ \E u \in UserIDs : CountWith(state, u, 1) = 3
    /\ Len(state.Bookings) = 3

\* no label booked for a trainer is in the list of a trainer with that id,
\* and no two bookings share trainer and label
SlotsExclusive(st) ==
    /\ \A i \in 1..Len(st.Bookings), k \in 1..Len(st.Trainers) :
          st.Trainers[k].ID = st.Bookings[i].Trainer
              => \A p \in 1..Len(st.Trainers[k].Slots) :
                     st.Trainers[k].Slots[p] # st.Bookings[i].TimeSlot
    /\ \A i, j \in 1..Len(st.Bookings) :
          (st.Bookings[i].Trainer = st.Bookings[j].Trainer
             /\ st.Bookings[i].TimeSlot = st.Bookings[j].TimeSlot) => i = j

\* C3 (slot exclusivity): in every state a label booked for a trainer is
\* absent from that trainer's available slots and no two bookings share
\* trainer and label; a call of bookSlot for a booked label never succeeds.
C3_SlotExclusivity ==
    /\ [](SlotsExclusive(state))
    /\ [][\A u \in UserIDs, d \in SlotData :
            (/\ last'.called
             /\ \E i \in 1..Len(state.Bookings) :
                    /\ state.Bookings[i].Trainer = ScannedID[d[1]]
                    /\ state.Bookings[i].TimeSlot = d[2]
             /\ SlotStep(u, d))
                => (last'.err # "" /\ state'.Bookings = state.Bookings)]_vars

\* a booked slot has just been refused to a user who could otherwise book it
C3_Witness ==
    /\ last.op = "slot" /\ last.err = "slot_unavailable"
    /\ Len(state.Bookings) > 0

\* C4 (entitlement gate): every booking belongs to a user of the store whose
\* HasPaid is true, and a slot callback of a user who has not paid is refused
\* without a call of bookSlot and leaves the ledger as it was.
C4_EntitlementGate ==
    /\ [](\A i \in 1..Len(state.Bookings) :
            /\ state.Bookings[i].UserID \in DOMAIN state.Users
            /\ state.Users[state.Bookings[i].UserID].HasPaid)
    /\ [][\A u \in UserIDs :
            (/\ phase = "run"
             /\ last'.op = "slot"
             /\ u \notin DOMAIN state.Users \/ ~state.Users[u].HasPaid
             /\ \E d \in SlotData :
                    \/ HandleSlotUnpaid(u, CallbackName(From(u)), d[1], d[2])
                    \/ SlotStep(u, d))
                => (/\ ~last'.called
                    /\ last'.err = "unpaid"
                    /\ state'.Bookings = state.Bookings)]_vars

\* a user who has not paid has just been refused a slot another user could book
C4_Witness ==
    /\ last.op = "slot" /\ last.err = "unpaid" /\ ~last.called
    /\ \E u \in DOMAIN state.Users : ~state.Users[u].HasPaid
    /\ Len(state.Bookings) > 0


\* what bookSlot, run alone on the state goroutine c saw when it took the
\* mutex, returns and leaves
Alone(c) ==
    bookSlot(calls[c].seen, calls[c].userID, calls[c].trainerID, calls[c].slot,
             Now(calls[c].seen))

\* C5 (booking atomicity): whatever the interleaving of concurrent calls of
\* bookSlot, each call returns and leaves, when it releases stateMu, what it
\* would have done alone on the state it found when it acquired stateMu (so
\* the calls act one after the other in the order of acquisition); of two
\* calls for the same trainer and slot at most one succeeds, and racing calls
\* exceed neither the single-trainer rule nor the limit of 3.
C5_BookingAtomic ==
    /\ [](/\ OneTrainerEach(state)
          /\ SlotsExclusive(state)
          /\ \A u \in UserIDs, t \in KnownTrainers(state) : CountWith(state, u, t) <= 3)
    /\ [](\A c1, c2 \in Callers :
            (/\ c1 # c2
             /\ calls[c1].pc = "done" /\ calls[c2].pc = "done"
             /\ calls[c1].trainerID = calls[c2].trainerID
             /\ calls[c1].slot = calls[c2].slot)
                => ~(calls[c1].err = "" /\ calls[c2].err = ""))
    /\ [][\A c \in Callers :
            BookUnlock(c) => (state = Alone(c).state /\ calls[c].err = Alone(c).err)]_vars

\* two goroutines asked for the same slot at once: one has booked it and is
\* about to release the mutex while the other still waits for it
C5_Witness ==
    \E c1, c2 \in Callers :
        /\ calls[c1].pc = "unlock" /\ calls[c1].err = "" /\ stateMu = c1
        /\ calls[c2].pc = "lock"
        /\ calls[c1].trainerID = calls[c2].trainerID
        /\ calls[c1].slot = calls[c2].slot

\* C6 (flush after every mutation): once main has handled an update without
\* a failed write, the file holds the in-memory state.
C6_FlushAfterMutation ==
    (/\ phase = "run"
     /\ last.op \in {"message", "callback", "book", "slot", "pay"}
     /\ last.saved # "failed")
        => disk = DocFile(Marshal(state))


\* C7 (round trip): for every state main runs in, saveState followed by
\* loadState gives back that state: the same users, the same trainers in the
\* same order with the same slot sequences, the same bookings; and when main
\* starts on a document that saveState wrote (it has users and trainers),
\* the state it installs is one that saveState writes as that document.
C7_RoundTrip ==
    /\ [](phase = "run" =>
            loadState(saveState(state, disk, "ok"), ZeroState)
                = [err |-> "", state |-> state, save |-> FALSE])
    /\ [][(/\ phase = "boot"
            /\ disk.kind = "doc" /\ Decodable(disk.doc)
            /\ ~disk.doc.users_null /\ Len(disk.doc.trainers) > 0) =>
              (phase' = "run" /\ saveState(state', disk, "ok") = disk)]_vars

\* a state with a fully booked trainer has been saved and loaded again
C7_Witness ==
    /\ phase = "run" /\ last.op = "load" /\ last.saved = "none"
    /\ disk = DocFile(Marshal(state))
    /\ Len(state.Bookings) > 0
    /\ \E k \in 1..Len(state.Trainers) : Len(state.Trainers[k].Slots) = 0

\* a file that is missing, or a document without trainers
EmptyOrMissing(file) ==
    \/ file.kind = "missing"
    \/ file.kind = "doc" /\ Decodable(file.doc) /\ Len(file.doc.trainers) = 0

\* five trainers with thirteen slots each
FiveByThirteen(trainers) ==
    /\ Len(trainers) = 5
    /\ \A k \in 1..Len(trainers) : Len(trainers[k].Slots) = 13

\* C8 (seeding idempotence): loadState on a missing file or on a document
\* without trainers installs the seed catalogue of five trainers with
\* thirteen slots each, and so does the load that follows it; on a missing
\* file the first load installs the fresh state and saves it at once, and the
\* second load reads that state back.
C8_SeedingIdempotent ==
    [][(phase = "boot" /\ EmptyOrMissing(disk)) =>
          /\ state'.Trainers = defaultTrainers
          /\ FiveByThirteen(state'.Trainers)
          /\ disk.kind = "missing" =>
                /\ state' = FreshState
                /\ last'.saved # "none"
                /\ last'.saved = "ok" => disk' = DocFile(Marshal(FreshState))
          /\ phase' = "run" =>
                /\ loadState(disk', ZeroState).err = ""
                /\ loadState(disk', ZeroState).state.Trainers = state'.Trainers
                /\ disk.kind = "missing" => loadState(disk', ZeroState).state = state']_vars

\* the fresh state saved by the first load has been read back by a second load
C8_Witness ==
    /\ phase = "run" /\ last.op = "load" /\ last.saved = "none"
    /\ state = FreshState
    /\ disk = DocFile(Marshal(FreshState))

\* C9 (empty-catalogue repair): when the document decodes and has no
\* trainers, loadState installs the seed catalogue and the users and bookings
\* of the document, and main goes on.
C9_EmptyCatalogueRepair ==
    [][(/\ phase = "boot"
        /\ disk.kind = "doc" /\ Decodable(disk.doc) /\ Len(disk.doc.trainers) = 0) =>
          /\ phase' = "run"
          /\ state'.Trainers = defaultTrainers
          /\ FiveByThirteen(state'.Trainers)
          /\ state'.Users = Unmarshal(disk.doc).Users
          /\ state'.Bookings = Unmarshal(disk.doc).Bookings
          /\ disk' = disk]_vars

\* a document with users and bookings and no trainers has been loaded
C9_Witness ==
    /\ phase = "run" /\ last.op = "load"
    /\ disk.kind = "doc" /\ Len(disk.doc.trainers) = 0
    /\ state.Trainers = defaultTrainers
    /\ Len(state.Bookings) > 0
    /\ DOMAIN state.Users # {}

\* a file that cannot be opened or cannot be decoded
Unloadable(file) ==
    \/ file.kind \in {"unreadable", "malformed"}
    \/ file.kind = "doc" /\ ~Decodable(file.doc)

\* C10 (malformed record is fatal): when the file is there and cannot be
\* opened or decoded, loadState returns an error, installs nothing and
\* writes nothing, and the process ends: it handles no update.
C10_MalformedIsFatal ==
    /\ [][(phase = "boot" /\ Unloadable(disk)) =>
             /\ last'.op = "load" /\ last'.err \in {"open", "decode"}
             /\ last'.saved = "none"
             /\ state' = ZeroState
             /\ disk' = disk
             /\ phase' = "dead"]_vars
    /\ [][phase = "dead" => (phase' = "boot" /\ disk' = disk)]_vars

\* the process has ended on a document it could not decode
C10_Witness ==
    /\ phase = "dead" /\ last.op = "load" /\ last.err = "decode"
    /\ disk.kind = "doc"
    /\ state = ZeroState


---------------------------------------------------------------------------
(* Users, the decisions of bookSlot and its effects *)

\* the names main may pass to getOrCreateUser for user u
NamesOf(u) == {MessageName(From(u)), CallbackName(From(u))}

\* trainer ids and labels bookSlot may be asked for: ids of the catalogue and
\* ids and labels it does not have
AnyTrainerIDs == 0..6
AnySlots == {"08:00", "09:00", "20:00", "21:00"}

\* C11 (user lifecycle): while main runs, a step removes no user and changes
\* neither the id nor the name of one; HasPaid only goes from false to true
\* and only in the pay handler; a user who appears in a step is new with
\* HasPaid false unless the step is the pay handler; getOrCreateUser on a
\* known id leaves the store as it is whatever name it is given; and the pay
\* handler leaves the state of a user who has paid unchanged.
C11_UserLifecycle ==
    /\ [](\A u \in DOMAIN state.Users :
            /\ state.Users[u].ID = u
            /\ \A n \in NamesOf(u) : getOrCreateUser(state, u, n) = state)
    /\ [][(phase = "run" /\ phase' # "boot") =>
            /\ DOMAIN state.Users \subseteq DOMAIN state'.Users
            /\ \A u \in DOMAIN state.Users :
                  /\ state'.Users[u].ID = state.Users[u].ID
                  /\ state'.Users[u].Name = state.Users[u].Name
                  /\ state.Users[u].HasPaid => state'.Users[u].HasPaid
                  /\ state'.Users[u].HasPaid # state.Users[u].HasPaid => last'.op = "pay"
            /\ \A u \in DOMAIN state'.Users \ DOMAIN state.Users :
                  /\ DOMAIN state'.Users = DOMAIN state.Users \cup {u}
                  /\ state'.Users[u].Name \in NamesOf(u)
                  /\ state'.Users[u].HasPaid => last'.op = "pay"
            /\ \A u \in DOMAIN state.Users :
                  (state.Users[u].HasPaid /\ HandlePay(u, CallbackName(From(u))))
                      => state' = state]_vars

\* user 7, created by a message under the full name and entitled since, has
\* just sent a callback, which passes the first name only
C11_Witness ==
    /\ phase = "run" /\ last.op = "callback"
    /\ 7 \in DOMAIN state.Users
    /\ state.Users[7].Name = <<"Ann", "Lee">>
    /\ state.Users[7].HasPaid
    /\ 10 \in DOMAIN state.Users /\ ~state.Users[10].HasPaid

\* the decision the four rules give in their order, stated on the ledger and
\* the catalogue
Decision(st, userID, trainerID, slot) ==
    IF \E i \in BookingsOf(st, userID) : st.Bookings[i].Trainer # trainerID
    THEN "different_trainer"
    ELSE IF CountWith(st, userID, trainerID) >= 3 THEN "limit"
    ELSE IF \A k \in 1..Len(st.Trainers) : st.Trainers[k].ID # trainerID
    THEN "trainer_not_found"
    ELSE IF \A p \in 1..Len(st.Trainers[TrainerIndex(st.Trainers, trainerID)].Slots) :
                st.Trainers[TrainerIndex(st.Trainers, trainerID)].Slots[p] # slot
    THEN "slot_unavailable"
    ELSE ""

\* C12 (decision order of bookSlot): in every state main runs in and for
\* every user, trainer id and label, bookSlot returns the different-trainer
\* error if the user holds a booking with another trainer, else the limit
\* error if the user holds 3 bookings with this trainer, else trainer not
\* found, else slot unavailable, else nil; a user without bookings is never
\* answered with the different-trainer error; and the handler answers what
\* bookSlot returned.
C12_DecisionOrder ==
    /\ [](phase = "run" =>
            \A u \in UserIDs, t \in AnyTrainerIDs, s \in AnySlots :
                /\ bookSlot(state, u, t, s, Now(state)).err = Decision(state, u, t, s)
                /\ BookingsOf(state, u) = {}
                      => bookSlot(state, u, t, s, Now(state)).err # "different_trainer")
    /\ [][\A u \in UserIDs, d \in SlotData :
            (/\ last'.called
             /\ Decision(state, u, ScannedID[d[1]], d[2]) # ""
             /\ SlotStep(u, d))
                => last'.err = Decision(state, u, ScannedID[d[1]], d[2])]_vars

\* a user without bookings has just asked for a trainer id the catalogue
\* does not have, while another user holds bookings
C12_Witness ==
    /\ last.op = "slot" /\ last.called /\ last.err = "trainer_not_found"
    /\ Len(state.Bookings) > 0
    /\ \E u \in DOMAIN state.Users : state.Users[u].HasPaid /\ BookingsOf(state, u) = {}

\* the four errors of bookSlot
BookingErrors == {"different_trainer", "limit", "trainer_not_found", "slot_unavailable"}

\* C13 (rejection leaves the state unchanged): a call of bookSlot that
\* returns an error leaves users, trainers and ledger as they were, and the
\* handler that made it neither saves nor touches the file.
C13_RejectionNoChange ==
    /\ [](phase = "run" =>
            \A u \in UserIDs, t \in AnyTrainerIDs, s \in AnySlots :
                bookSlot(state, u, t, s, Now(state)).err # ""
                    => /\ bookSlot(state, u, t, s, Now(state)).err \in BookingErrors
                       /\ bookSlot(state, u, t, s, Now(state)).state = state)
    /\ [][\A u \in UserIDs, d \in SlotData :
            (/\ last'.called
             /\ last'.err # ""
             /\ SlotStep(u, d))
                => /\ last'.err \in BookingErrors
                   /\ state' = state
                   /\ disk' = disk
                   /\ last'.saved = "none"
                   /\ phase' = "run"]_vars

\* a user who holds three bookings has just been refused, and file and
\* memory still agree
C13_Witness ==
    /\ last.op = "slot" /\ last.called /\ last.err = "limit" /\ last.saved = "none"
    /\ Len(state.Bookings) = 3
    /\ disk = DocFile(Marshal(state))

\* C14 (effect of a successful bookSlot): the label leaves the list of the
\* requested trainer and the other labels keep their order; one booking of
\* (user, trainer, label) is appended to the ledger, whose earlier entries
\* stay; every other trainer, the ids and the order of the catalogue, and
\* the users are unchanged.
C14_BookingEffect ==
    [][\A u \in UserIDs, d \in SlotData :
        (/\ last'.called
         /\ last'.err = ""
         /\ SlotStep(u, d))
            => LET t == ScannedID[d[1]]
                   k == TrainerIndex(state.Trainers, t)
                   n == Len(state.Bookings)
               IN /\ k # 0
                  /\ Len(state'.Bookings) = n + 1
                  /\ SubSeq(state'.Bookings, 1, n) = state.Bookings
                  /\ state'.Bookings[n + 1].UserID = u
                  /\ state'.Bookings[n + 1].Trainer = t
                  /\ state'.Bookings[n + 1].TimeSlot = d[2]
                  /\ state'.Users = state.Users
                  /\ Len(state'.Trainers) = Len(state.Trainers)
                  /\ \A j \in 1..Len(state.Trainers) :
                        IF j = k
                        THEN /\ state'.Trainers[j] =
                                   [state.Trainers[j] EXCEPT !.Slots = state'.Trainers[j].Slots]
                             /\ Len(state'.Trainers[j].Slots) = Len(state.Trainers[j].Slots) - 1
                             /\ state'.Trainers[j].Slots =
                                   SelectSeq(state.Trainers[j].Slots, LAMBDA s : s # d[2])
                        ELSE state'.Trainers[j] = state.Trainers[j]]_vars

\* a slot from the middle of the list of trainer 1 has just been booked: its
\* neighbours are still there
C14_Witness ==
    /\ last.op = "slot" /\ last.called /\ last.err = ""
    /\ Len(state.Bookings) = 1
    /\ SubSeq(state.Trainers[1].Slots, 1, 2) = <<"08:00", "10:00">>

\* C17 (persistence failure after a successful booking): when saveState
\* fails after bookSlot has succeeded, main writes the failure to the log,
\* keeps the booking in the ledger and the slot off the list, and goes on to
\* confirm the booking.
C17_SaveFailureLogged ==
    [][\A u \in UserIDs, d \in SlotData :
        (/\ last'.called
         /\ last'.saved = "failed"
         /\ SlotStep(u, d))
            => /\ last'.logged
               /\ state' = bookSlot(state, u, ScannedID[d[1]], d[2], Now(state)).state
               /\ Len(state'.Bookings) = Len(state.Bookings) + 1
               /\ last'.err = ""
               /\ phase' = "run"]_vars

\* the labels of a list
LabelsOf(slots) == {slots[p] : p \in 1..Len(slots)}

\* the labels the ledger of st holds for trainer id t
BookedLabels(st, t) ==
    {st.Bookings[i].TimeSlot : i \in {j \in 1..Len(st.Bookings) : st.Bookings[j].Trainer = t}}

\* C18 (slot conservation): in every state reached from the first run, for
\* each trainer the available labels and the booked labels are disjoint and
\* together are the thirteen seeded labels, the available count plus the
\* number of bookings is 13, and no label is twice in a list.
C18_SlotConservation ==
    phase = "run" =>
        /\ Len(state.Trainers) = 5
        /\ \A k \in 1..Len(state.Trainers) :
            LET t == state.Trainers[k].ID
                avail == state.Trainers[k].Slots
            IN /\ LabelsOf(avail) \cap BookedLabels(state, t) = {}
               /\ LabelsOf(avail) \cup BookedLabels(state, t) = LabelsOf(defaultSlots)
               /\ Len(avail) + Cardinality({i \in 1..Len(state.Bookings) :
                                               state.Bookings[i].Trainer = t}) = 13
               /\ Cardinality(LabelsOf(avail)) = Len(avail)
               /\ Cardinality(LabelsOf(defaultSlots)) = 13

\* trainers 1 and 2 have each lost 08:00 to a booking and nothing else
C18_Witness ==
    /\ phase = "run"
    /\ Len(state.Bookings) = 2
    /\ Len(state.Trainers[1].Slots) = 12 /\ Len(state.Trainers[2].Slots) = 12
    /\ Len(state.Trainers[3].Slots) = 13
    /\ BookedLabels(state, 1) = {"08:00"} /\ BookedLabels(state, 2) = {"08:00"}

\* C19 (schedule lookup agrees with lookup by id): in every state main runs
\* in, the trainer at position i of the catalogue has id i, counted from 1;
\* for every id getTrainerByID finds, the index of scheduleKeyboard is in
\* range and the slots it copies are those of the trainer found; and no
\* handler ends in the panic of an index out of range.
C19_ScheduleLookup ==
    /\ [](phase = "run" =>
            /\ \A i \in 1..Len(state.Trainers) : state.Trainers[i].ID = i
            /\ \A t \in AnyTrainerIDs :
                  getTrainerByID(state, t) # 0 =>
                      /\ ~scheduleKeyboardPanics(state, t)
                      /\ scheduleKeyboard(state, t)
                            = state.Trainers[getTrainerByID(state, t)].Slots)
    /\ [](last.err # "panic")

\* the schedule of trainer 1 has just been shown to a user who has paid,
\* after one of its slots was booked
C19_Witness ==
    /\ phase = "run" /\ last.op = "book" /\ last.err = ""
    /\ Len(state.Trainers[1].Slots) = 12
    /\ Len(state.Trainers[2].Slots) = 13


---------------------------------------------------------------------------
(* The mutex in main *)

\* C15 (no transport I/O under the lock): whenever main is at a send or at
\* the answer to a callback, stateMu is free; the keyboard builders have
\* released it when they return.
C15_NoSendUnderLock ==
    /\ [](Stmt = "transport" => stateMu = "free")
    /\ [][(run.site.fn \in {"trainersInlineKeyboard", "scheduleKeyboard"}
             /\ run'.site # run.site) => stateMu' = "free"]_vars

\* main is about to send the keyboard that trainersInlineKeyboard built
\* from its copy of the trainers
C15_Witness ==
    /\ run.site = At(354, "send") /\ Stmt = "transport"
    /\ stateMu = "free"
    /\ Len(state.Bookings) > 0

\* C16 (all shared-state access is inside the critical section): whenever
\* main works on the shared state or reads a field of a record of the store,
\* it holds stateMu.
C16_AccessUnderLock ==
    Stmt \in {"access", "read"} => stateMu = "main"

\* C20 (no self-deadlock): no goroutine calls Lock while it holds stateMu,
\* main in loadState and every handler; every acquisition is followed by the
\* release; main gets through loadState and every handler through the update
\* it took, whatever the other handler does meanwhile; the process does not
\* die.
C20_NoSelfDeadlock ==
    /\ [](Stmt = "lock" => stateMu # "main")
    /\ [](\A c \in Callers : HandlerStmt(c) = "lock" => stateMu # c)
    /\ [](phase # "dead")
    /\ (stateMu = "main") ~> (stateMu # "main")
    /\ \A c \in Callers : (stateMu = c) ~> (stateMu # c)
    /\ (phase = "boot") ~> (phase = "run")
    /\ \A c \in Callers : (calls[c] # Idle) ~> (calls[c] = Idle)

\* a handler is at the Lock of bookSlot and waits, while the other handler
\* holds the mutex in saveState after its own booking
C20_Witness ==
    \E c, d \in Callers :
        /\ c # d
        /\ calls[c].site = At(407, "bookSlot") /\ HandlerStmt(c) = "lock"
        /\ calls[d].site = At(411, "saveState") /\ HandlerStmt(d) = "access"
        /\ stateMu = d

=============================================================================
